---------------------------- MODULE Spec2Model ----------------------------
(***************************************************************************)
(* A model of sismic_viz.py: the DOT renderer (visit_state, get_edges),    *)
(* the permissive evaluator patch (NoKeyErrorDict, CallMe,                 *)
(* disable_keyerror_in_actions, enable_keyerror_in_actions), the           *)
(* interactive request handler (display_interactive_statechart,            *)
(* create_interp, create_image) and the bound background server            *)
(* (server_to_bind).                                                       *)
(*                                                                         *)
(* Four specifications share the module:                                   *)
(*   SpecEval    the evaluator of one live interpreter, patched and        *)
(*               unpatched by direct calls, executing action and guard code*)
(*   Spec        the interactive session driven by HTTP requests           *)
(*   SpecRender  export_to_dot applied to a bounded family of statecharts  *)
(*   SpecBind    the interpreter thread and the background server thread   *)
(*               of server_to_bind                                         *)
(***************************************************************************)
EXTENDS Integers, Sequences, FiniteSets, TLC

VARIABLES
    \* --- evaluator (SpecEval) ---
    ev,             \* the attributes of interp._evaluator the patch touches
    ctx,            \* interp._evaluator._context
    call,           \* the last evaluator call: what ran, on what, with what result
    \* --- interactive session (Spec) ---
    interp,         \* the module global interp
    global_config,  \* the module global global_config
    image,          \* content of the file at imagefile_path
    response,       \* how the last request ended and what it did
    daemon,         \* the statechart import_from_yaml(yaml_filepath) yields
    \* --- renderer (SpecRender) ---
    sc,             \* the statechart given to export_to_dot
    opts,           \* include_guards, include_actions, configuration
    dot,            \* the nodes and edges export_to_dot produced
    \* --- bound server (SpecBind) ---
    configuration,  \* the list closed over by callback and index
    clock_time,     \* clock_time[0]
    stepper,        \* the interpreter thread: its position inside a step
    served          \* what the last index() request rendered

evalVars == <<ev, ctx, call>>
sessVars == <<interp, global_config, image, response, daemon>>
rendVars == <<sc, opts, dot>>
bindVars == <<configuration, clock_time, stepper, served>>
vars == <<ev, ctx, call, interp, global_config, image, response, daemon,
          sc, opts, dot, configuration, clock_time, stepper, served>>

None == "None"

(***************************************************************************)
(* Bounds                                                                  *)
(***************************************************************************)
\* longest action (number of statements) the evaluator is given
MaxStmts == 2
\* largest integer a context variable holds (x + 1 saturates there)
MaxInt == 2

(***************************************************************************)
(* Values and code of the evaluator                                        *)
(*                                                                         *)
(* Python values are tagged: an int, the CallMe sentinel, a function of    *)
(* the exposed context, None, or Unbound for a name a dict does not hold.  *)
(***************************************************************************)
IntVal(n) == [t |-> "int", v |-> n]
Sentinel == [t |-> "CallMe", v |-> 0]
FnVal == [t |-> "function", v |-> 0]
NoneVal == [t |-> "NoneType", v |-> 0]
Unbound == [t |-> "unbound", v |-> 0]

\* names action code may mention: x and foo live (or not) in the context,
\* send is one of the names of exposed_context
CtxNames == {"x", "foo"}
ExposedNames == {"send"}

\* exposed_context of new_execute_code (and of sismic's own evaluator):
\* active, time, send, notify, setdefault, all functions
exposed_context == [n \in ExposedNames |-> FnVal]

\* expressions: the constant 1, a bare name, an attribute access or call
\* on a name (n.attr, n(...)), an operator applied to a name (n + 1)
Exprs ==
    {[e |-> "const", n |-> ""]}
    \cup [e : {"name"}, n : CtxNames \cup ExposedNames]
    \cup [e : {"attrcall", "binop"}, n : CtxNames]

\* statements: x = <expr>, an expression statement, foo.field = 1
Stmts ==
    [s : {"assign"}, t : {"x"}, e : Exprs]
    \cup [s : {"expr"}, t : {""}, e : {x \in Exprs : x.e \in {"attrcall", "binop"}}]
    \cup [s : {"setattr"}, t : {"foo"}, e : {[e |-> "const", n |-> ""]}]

SeqsUpTo(S, n) == UNION {[1..k -> S] : k \in 1..n}

Codes == SeqsUpTo(Stmts, MaxStmts)

\* guards are single expressions
Guards == Exprs

\* CallMe.__call__ and CallMe.__getattribute__: both return self
CallMe_call(self) == self
CallMe_getattribute(self) == self

\* NoKeyErrorDict.__getitem__: locals_, then globals_, then CallMe()
NoKeyErrorDict_getitem(globals_, locals_, name) ==
    IF name \in DOMAIN locals_ /\ locals_[name] # Unbound THEN locals_[name]
    ELSE IF name \in DOMAIN globals_ THEN globals_[name]
    ELSE Sentinel

\* NoKeyErrorDict.__setitem__: self.locals_[name] = value
NoKeyErrorDict_setitem(locals_, name, value) ==
    [locals_ EXCEPT ![name] = value]

\* name lookup of exec/eval with a plain globals and locals pair (the
\* unpatched evaluator): locals, then globals, then NameError (Unbound)
StrictLookup(globals_, locals_, name) ==
    IF name \in DOMAIN locals_ /\ locals_[name] # Unbound THEN locals_[name]
    ELSE IF name \in DOMAIN globals_ THEN globals_[name]
    ELSE Unbound

Lookup(permissive, locals_, name) ==
    IF permissive THEN NoKeyErrorDict_getitem(exposed_context, locals_, name)
    ELSE StrictLookup(exposed_context, locals_, name)

\* the value of an expression, or the exception evaluating it raises
\* [ok, val, exc]
Ok(v) == [ok |-> TRUE, val |-> v, exc |-> ""]
Raise(x) == [ok |-> FALSE, val |-> NoneVal, exc |-> x]

\* what an expression over a name does with the value v the name holds
Apply(expr, v) ==
    IF v = Unbound THEN Raise("NameError")
    ELSE IF expr.e = "name" THEN Ok(v)
    ELSE IF expr.e = "attrcall" THEN
        IF v = Sentinel THEN Ok(CallMe_call(CallMe_getattribute(v)))
        ELSE IF v = FnVal THEN Ok(NoneVal)
        ELSE Raise("AttributeError")
    ELSE \* binop: the operator is looked up on the type; CallMe has none
        IF v.t = "int" THEN Ok(IntVal(IF v.v < MaxInt THEN v.v + 1 ELSE v.v))
        ELSE Raise("TypeError")

EvalExpr(permissive, locals_, expr) ==
    IF expr.e = "const" THEN Ok(IntVal(1))
    ELSE Apply(expr, Lookup(permissive, locals_, expr.n))

\* foo.field = 1 on the object o that foo names
SetAttr(locals_, o) ==
    IF o = Unbound THEN [locals |-> locals_, exc |-> "NameError"]
    ELSE IF o = Sentinel THEN [locals |-> locals_, exc |-> ""]
    ELSE [locals |-> locals_, exc |-> "AttributeError"]

\* x = <expr> or an expression statement, r being what <expr> evaluated to
Store(locals_, stmt, r) ==
    IF ~r.ok THEN [locals |-> locals_, exc |-> r.exc]
    ELSE IF stmt.s = "assign" THEN
        [locals |-> NoKeyErrorDict_setitem(locals_, stmt.t, r.val), exc |-> ""]
    ELSE [locals |-> locals_, exc |-> ""]

\* one statement: the context after it and the exception, if any
ExecStmt(permissive, locals_, stmt) ==
    IF stmt.s = "setattr" THEN SetAttr(locals_, Lookup(permissive, locals_, stmt.t))
    ELSE Store(locals_, stmt, EvalExpr(permissive, locals_, stmt.e))

\* exec(compiled_code, ...): statements in order, stopping at the first
\* exception; what ran before it stays in the context
RECURSIVE Exec(_, _, _)
ExecRest(permissive, r, rest) ==
    IF r.exc # "" THEN r ELSE Exec(permissive, r.locals, rest)

Exec(permissive, locals_, code) ==
    IF code = << >> THEN [locals |-> locals_, exc |-> ""]
    ELSE ExecRest(permissive, ExecStmt(permissive, locals_, Head(code)), Tail(code))

(***************************************************************************)
(* The evaluator object and its two patched methods                        *)
(*                                                                         *)
(* ev maps attribute names of interp._evaluator to what they hold: "orig"  *)
(* (the method of sismic's PythonEvaluator), "new" (the closure installed  *)
(* by disable_keyerror_in_actions) or Absent (no such attribute).          *)
(***************************************************************************)
Absent == "absent"

EvAttrs == {"_execute_code", "_evaluate_code", "old_execute_code",
            "old_eval_code", "old_val_code", "old_eal_code"}

\* the evaluator of a freshly constructed Interpreter
OriginalEvaluator ==
    [a \in EvAttrs |->
        IF a \in {"_execute_code", "_evaluate_code"} THEN "orig" ELSE Absent]

hasattr(obj, name) == obj[name] # Absent

\* disable_keyerror_in_actions: install the permissive methods, once
disable_execute_code(e) ==
    IF ~hasattr(e, "old_execute_code")
    THEN [e EXCEPT !["old_execute_code"] = e["_execute_code"],
                   !["_execute_code"] = "new"]
    ELSE e

disable_eval_code(e) ==
    IF ~hasattr(e, "old_eval_code")
    THEN [e EXCEPT !["old_eval_code"] = e["_evaluate_code"],
                   !["_evaluate_code"] = "new"]
    ELSE e

disable_keyerror_in_actions(e) == disable_eval_code(disable_execute_code(e))

\* enable_keyerror_in_actions: put the saved methods back. The second block
\* reads old_val_code and deletes old_eal_code, attributes nothing ever sets:
\* the read raises AttributeError and the function ends there.
enable_execute_code(e) ==
    IF hasattr(e, "old_execute_code")
    THEN [e EXCEPT !["_execute_code"] = e["old_execute_code"],
                   !["old_execute_code"] = Absent]
    ELSE e

enable_eval_code(e) ==
    IF hasattr(e, "old_eval_code")
    THEN IF ~hasattr(e, "old_val_code")
         THEN [ev |-> e, exc |-> "AttributeError"]
         ELSE IF ~hasattr(e, "old_eal_code")
         THEN [ev |-> [e EXCEPT !["_evaluate_code"] = e["old_val_code"]],
               exc |-> "AttributeError"]
         ELSE [ev |-> [e EXCEPT !["_evaluate_code"] = e["old_val_code"],
                                !["old_eal_code"] = Absent],
               exc |-> ""]
    ELSE [ev |-> e, exc |-> ""]

enable_keyerror_in_actions(e) == enable_eval_code(enable_execute_code(e))

\* sismic's PythonEvaluator._execute_code, the method saved as
\* old_execute_code: exec(code, exposed_context, self._context), any
\* exception raised as CodeEvaluationError
CodeEvaluationError(r) ==
    [locals |-> r.locals,
     exc |-> IF r.exc = "" THEN "" ELSE "CodeEvaluationError",
     cause |-> r.exc]

old_execute_code(locals_, code) == CodeEvaluationError(Exec(FALSE, locals_, code))

\* new_execute_code: exec(code, NoKeyErrorDict(exposed_context,
\* self._context)), any exception raised as CodeEvaluationError
new_execute_code(locals_, code) == CodeEvaluationError(Exec(TRUE, locals_, code))

\* bool(value)
Truthy(v) == ~(v = NoneVal \/ v = IntVal(0))

\* sismic's PythonEvaluator._evaluate_code, the method saved as
\* old_eval_code: eval(code, exposed_context, self._context)
BoolOrError(r) ==
    IF r.ok THEN [val |-> Truthy(r.val), exc |-> "", cause |-> ""]
    ELSE [val |-> FALSE, exc |-> "CodeEvaluationError", cause |-> r.exc]

old_eval_code(locals_, guard) == BoolOrError(EvalExpr(FALSE, locals_, guard))

\* try: return self.old_eval_code(code)
\* except CodeEvaluationError: return False
FalseOnError(r) ==
    IF r.exc = "CodeEvaluationError"
    THEN [val |-> FALSE, exc |-> "", cause |-> r.cause]
    ELSE r

\* new_eval_code with the except clause left out
new_eval_code_uncaught(e, locals_, guard) == old_eval_code(locals_, guard)

\* new_eval_code: self.old_eval_code(code), False on CodeEvaluationError
new_eval_code(e, locals_, guard) ==
    IF ~hasattr(e, "old_eval_code")
    THEN [val |-> FALSE, exc |-> "AttributeError", cause |-> ""]
    ELSE FalseOnError(old_eval_code(locals_, guard))

\* self._execute_code(code) and self._evaluate_code(code) as the evaluator
\* object dispatches them
execute_code(e, locals_, code) ==
    IF e["_execute_code"] = "new" THEN new_execute_code(locals_, code)
    ELSE old_execute_code(locals_, code)

evaluate_code(e, locals_, guard) ==
    IF e["_evaluate_code"] = "new" THEN new_eval_code(e, locals_, guard)
    ELSE old_eval_code(locals_, guard)

(***************************************************************************)
(* SpecEval: direct calls on the evaluator of one live interpreter         *)
(***************************************************************************)
NoExpr == [e |-> "const", n |-> ""]

NoCall == [op |-> "none", trail |-> << >>, code |-> << >>, guard |-> NoExpr,
           evBefore |-> OriginalEvaluator, before |-> [n \in CtxNames |-> Unbound],
           exc |-> "", val |-> FALSE]

\* the patch calls made in a row, the last three of them
Trail(op) ==
    LET t == Append(call.trail, op) IN
    IF Len(t) > 3 THEN Tail(t) ELSE t

\* the contexts an interpreter's code may have left behind
EvalInit ==
    /\ ev = OriginalEvaluator
    /\ ctx \in {c \in [CtxNames -> {Unbound, IntVal(0), Sentinel}] : c["foo"] # Sentinel}
    /\ call = NoCall

\* each behaviour patches and unpatches the evaluator any number of times
\* and then makes one call of _execute_code or _evaluate_code
Applied == call.op \in {"execute", "evaluate"}

CallDisable ==
    /\ ~Applied
    /\ ev' = disable_keyerror_in_actions(ev)
    /\ call' = [NoCall EXCEPT !.op = "disable", !.trail = Trail("disable"),
                              !.evBefore = ev, !.before = ctx]
    /\ UNCHANGED <<ctx, sessVars, rendVars, bindVars>>

CallEnable ==
    /\ ~Applied
    /\ LET r == enable_keyerror_in_actions(ev) IN
        /\ ev' = r.ev
        /\ call' = [NoCall EXCEPT !.op = "enable", !.trail = Trail("enable"),
                                  !.evBefore = ev, !.before = ctx, !.exc = r.exc]
    /\ UNCHANGED <<ctx, sessVars, rendVars, bindVars>>

CallExecute ==
    \E code \in Codes :
        /\ ~Applied
        /\ LET r == execute_code(ev, ctx, code) IN
            /\ ctx' = r.locals
            /\ call' = [NoCall EXCEPT !.op = "execute", !.code = code,
                                      !.evBefore = ev, !.before = ctx,
                                      !.exc = r.exc]
        /\ UNCHANGED <<ev, sessVars, rendVars, bindVars>>

CallEvaluate ==
    \E guard \in Guards :
        /\ ~Applied
        /\ LET r == evaluate_code(ev, ctx, guard) IN
            call' = [NoCall EXCEPT !.op = "evaluate", !.guard = guard,
                                   !.evBefore = ev, !.before = ctx,
                                   !.exc = r.exc, !.val = r.val]
        /\ UNCHANGED <<ev, ctx, sessVars, rendVars, bindVars>>

(***************************************************************************)
(* Properties of the evaluator patch                                       *)
(***************************************************************************)
\* C1: disable_keyerror_in_actions, disable_keyerror_in_actions again, then
\* enable_keyerror_in_actions completes without error and leaves the
\* evaluator exactly as it was constructed: _execute_code and _evaluate_code
\* are the original methods and no old_* attribute is left; the second
\* disable_keyerror_in_actions in a row changes nothing.
C1_ToggleRestores ==
    /\ (call.op = "enable" /\ call.trail = <<"disable", "disable", "enable">>)
            => (call.exc = "" /\ ev = OriginalEvaluator)
    /\ (call.op = "disable" /\ Len(call.trail) >= 2
            /\ call.trail[Len(call.trail) - 1] = "disable")
            => ev = call.evBefore

\* the name foo is bound neither in the context nor in exposed_context
\* when the call starts
FooUndefined == call.before["foo"] = Unbound /\ "foo" \notin DOMAIN exposed_context

ReadsFoo(stmt) ==
    \/ stmt.s = "setattr" /\ stmt.t = "foo"
    \/ stmt.s # "setattr" /\ stmt.e.e # "const" /\ stmt.e.n = "foo"

\* C3: with the permissive _execute_code installed, an action that reads an
\* undefined name completes without raising and every variable the context
\* already defined keeps its value (unless a statement that does not read
\* the undefined name assigns it); with the original _execute_code the same
\* action raises CodeEvaluationError.
C3_UndefinedNameHarmless ==
    (/\ call.op = "execute"
     /\ FooUndefined
     /\ \E i \in 1..Len(call.code) : ReadsFoo(call.code[i]))
    => IF call.evBefore["_execute_code"] = "new"
       THEN /\ call.exc = ""
            /\ \A n \in CtxNames :
                   call.before[n] # Unbound =>
                       \/ ctx[n] = call.before[n]
                       \/ \E i \in 1..Len(call.code) :
                              /\ call.code[i].s = "assign"
                              /\ call.code[i].t = n
                              /\ ~ReadsFoo(call.code[i])
       ELSE call.exc = "CodeEvaluationError"

\* what the name of a guard holds when the call starts, by Python's rule for
\* eval(code, exposed_context, context)
Held(guard) ==
    IF call.before[guard.n] # Unbound THEN call.before[guard.n]
    ELSE IF guard.n \in DOMAIN exposed_context THEN exposed_context[guard.n]
    ELSE Unbound

\* the guard raises when evaluated: it reads an undefined name, reads an
\* attribute an int does not have, or adds to something that is not an int
GuardRaises(guard) ==
    /\ guard.e # "const"
    /\ guard.n \in CtxNames
    /\ \/ Held(guard) = Unbound
       \/ guard.e = "attrcall" /\ Held(guard).t = "int"
       \/ guard.e = "binop" /\ Held(guard).t # "int"

\* C9: with the permissive _evaluate_code installed, a guard that reads an
\* undefined name, or that raises for another reason, evaluates to False and
\* no exception leaves the evaluator; with the original _evaluate_code the
\* same guard raises CodeEvaluationError.
C9_GuardFalseOnError ==
    (call.op = "evaluate" /\ GuardRaises(call.guard))
    => IF call.evBefore["_evaluate_code"] = "new"
       THEN call.exc = "" /\ call.val = FALSE
       ELSE call.exc = "CodeEvaluationError"

\* a guard reading the undefined name foo was evaluated by the permissive
\* _evaluate_code and came out False
C9_Witness ==
    /\ call.op = "evaluate"
    /\ call.evBefore["_evaluate_code"] = "new"
    /\ call.guard = [e |-> "name", n |-> "foo"]
    /\ call.before["foo"] = Unbound
    /\ GuardRaises(call.guard)
    /\ call.exc = ""
    /\ call.val = FALSE


(***************************************************************************)
(* The statechart as the renderer queries it (sismic's Statechart)         *)
(*                                                                         *)
(* sc = [root, kind, children, initial, transitions, decorated]:           *)
(*   kind[s]      "leaf", "compound" (CompoundState) or "orthogonal"       *)
(*   children[s]  the children of s in declared order                      *)
(*   initial[s]   the initial child of a compound state, or None           *)
(*   transitions  the transitions in declared order, [source, target,      *)
(*                event, guard, action], None for a part not given         *)
(*   on_entry[s], on_exit[s]  action text or None                          *)
(***************************************************************************)
States == {"root", "A", "B"}

\* sc.states: the state names, sorted
sc_states == <<"A", "B", "root">>

\* most transitions a statechart declares
MaxTrans == 2

state_for(chart, name) == chart.kind[name]

isCompositeStateMixin(kind) == kind \in {"compound", "orthogonal"}
isCompoundState(kind) == kind = "compound"

children_for(chart, name) == chart.children[name]

SeqToSet(q) == {q[i] : i \in 1..Len(q)}

RECURSIVE descendants_for(_, _)
descendants_for(chart, name) ==
    LET kids == SeqToSet(children_for(chart, name)) IN
    kids \cup UNION {descendants_for(chart, k) : k \in kids}

transitions_from(chart, name) ==
    SelectSeq(chart.transitions, LAMBDA t : t.source = name)

transitions_to(chart, name) ==
    SelectSeq(chart.transitions, LAMBDA t : t.target = name)

(***************************************************************************)
(* The DOT text, as the lines the templates produce                        *)
(*                                                                         *)
(* A name of the text is [k, s, i]: the state name s itself (k = "state"), *)
(* cluster_s, invisible_s, initial_s or point_s_i.                         *)
(***************************************************************************)
Nm(k, s, i) == [k |-> k, s |-> s, i |-> i]
StateName(s) == Nm("state", s, 0)
NoName == Nm("", "", 0)

Line(t, name, to, style, color) ==
    [t |-> t, name |-> name, to |-> to, style |-> style, color |-> color]

\* template_cluster: subgraph cluster_{state_name} { ... }
ClusterOpen(s, style, color) == Line("subgraph", Nm("cluster", s, 0), NoName, style, color)
ClusterClose == Line("close", NoName, NoName, "", "")
\* template_initial: initial_{state_name} -> {initial_state}
InitialEdge(s, initial_state) ==
    Line("edge", Nm("initial", s, 0), StateName(initial_state), "point", "")
\* template_invisible: invisible_{state_name}
InvisibleNode(s) == Line("node", Nm("invisible", s, 0), NoName, "invisible", "")
\* "  point_{child}_{ind}"
PointNode(child, ind) == Line("node", Nm("point", child, ind), NoName, "invis", "")
\* template_leaf and template_leaf_table_label
LeafNode(s, style, color) == Line("node", StateName(s), NoName, style, color)

RECURSIVE ConcatAll(_)
ConcatAll(qq) == IF qq = << >> THEN << >> ELSE Head(qq) \o ConcatAll(Tail(qq))

\* the additional_points of a cluster: one per transition of a child of
\* state_name whose target is a descendant of that child
additional_points(chart, state_name) ==
    LET kids == children_for(chart, state_name) IN
    ConcatAll([c \in 1..Len(kids) |->
        LET child == kids[c]
            from == transitions_from(chart, child)
            hits == [i \in 1..Len(from) |->
                        IF from[i].target \in descendants_for(chart, child)
                        THEN <<PointNode(child, i - 1)>> ELSE << >>]
        IN  ConcatAll(hits)])

RECURSIVE visit_state(_, _, _)
visit_state(chart, state_name, in_states) ==
    LET state == state_for(chart, state_name)
        active == state_name \in in_states
    IN
    IF isCompositeStateMixin(state) THEN
        LET color == IF active THEN "#3399ff" ELSE "black"
            style == IF isCompoundState(state) THEN "rounded" ELSE "dashed"
            initial0 == IF isCompoundState(state)
                        THEN <<InitialEdge(state_name, chart.initial[state_name])>>
                        ELSE << >>
            initial == IF transitions_to(chart, state_name) # << >>
                          \/ transitions_from(chart, state_name) # << >>
                       THEN initial0 \o <<InvisibleNode(state_name)>>
                       ELSE initial0
            kids == children_for(chart, state_name)
            inner_nodes == ConcatAll([c \in 1..Len(kids) |->
                               visit_state(chart, kids[c], in_states)])
        IN  <<ClusterOpen(state_name, style, color)>>
            \o inner_nodes \o initial \o additional_points(chart, state_name)
            \o <<ClusterClose>>
    ELSE IF chart.on_entry[state_name] # None \/ chart.on_exit[state_name] # None THEN
        <<LeafNode(state_name, "table", IF active THEN "#3399ff" ELSE "")>>
    ELSE
        <<LeafNode(state_name, IF active THEN "filled" ELSE "",
                   IF active THEN "#3399ff" ELSE "black")>>

\* get_valid_nodes clipping at the anchor node instead of the cluster
get_valid_nodes_inner(chart, state_name) ==
    IF isCompositeStateMixin(state_for(chart, state_name))
    THEN <<Nm("invisible", state_name, 0), Nm("invisible", state_name, 0)>>
    ELSE <<StateName(state_name), StateName(state_name)>>

\* get_valid_nodes: (node an edge may end at, name the edge is clipped to)
get_valid_nodes(chart, state_name) ==
    IF isCompositeStateMixin(state_for(chart, state_name))
    THEN <<Nm("invisible", state_name, 0), Nm("cluster", state_name, 0)>>
    ELSE <<StateName(state_name), StateName(state_name)>>

\* get_edge_text: template_transition filled in; ltail and lhead are left
\* out (NoName) when they name the edge's own end
get_edge_text(source, target, ltail, lhead, label, dir_, color) ==
    [source |-> source, target |-> target, label |-> label,
     ltail |-> IF ltail = source THEN NoName ELSE ltail,
     lhead |-> IF lhead = target THEN NoName ELSE lhead,
     dir |-> dir_, color |-> color]

\* the label parts of one transition, joined by " "
LabelPart(w, text) == [w |-> w, text |-> text]

edge_label(transition, include_guards, include_actions) ==
    (IF transition.event # None THEN <<LabelPart("event", transition.event)>> ELSE << >>)
    \o (IF include_guards /\ transition.guard # None
        THEN <<LabelPart("guard", transition.guard)>> ELSE << >>)
    \o (IF include_actions /\ transition.action # None
        THEN <<LabelPart("action", transition.action)>> ELSE << >>)

\* edges_of splitting a self-transition too (target in descendants or self)
edges_of_split_self(chart, state_name, ind, transition, include_guards, include_actions, in_states) ==
    LET vs == get_valid_nodes(chart, transition.source)
        vt == get_valid_nodes(chart, transition.target)
        color == IF transition.event # None /\ state_name \in in_states
                 THEN "#3399ff" ELSE ""
        label == edge_label(transition, include_guards, include_actions)
    IN
    IF transition.target \in descendants_for(chart, state_name) \cup {state_name} THEN
        LET out_point == Nm("point", state_name, ind) IN
        << get_edge_text(vs[1], out_point, vs[2], out_point, << >>, "none", color),
           get_edge_text(out_point, vt[1], out_point, vt[2], label, "", color) >>
    ELSE
        << get_edge_text(vs[1], vt[1], vs[2], vt[2], label, "", color) >>

\* the one or two edges of the ind-th transition leaving state_name
edges_of(chart, state_name, ind, transition, include_guards, include_actions, in_states) ==
    LET vs == get_valid_nodes(chart, transition.source)
        vt == get_valid_nodes(chart, transition.target)
        valid_source == vs[1]
        source == vs[2]
        valid_target == vt[1]
        target == vt[2]
        color == IF transition.event # None /\ state_name \in in_states
                 THEN "#3399ff" ELSE ""
        label == edge_label(transition, include_guards, include_actions)
    IN
    IF transition.target \in descendants_for(chart, state_name) THEN
        LET out_point == Nm("point", state_name, ind) IN
        << get_edge_text(valid_source, out_point, source, out_point, << >>, "none", color),
           get_edge_text(out_point, valid_target, out_point, target, label, "", color) >>
    ELSE
        << get_edge_text(valid_source, valid_target, source, target, label, "", color) >>

get_edges(chart, include_guards, include_actions, in_states) ==
    ConcatAll([n \in 1..Len(sc_states) |->
        LET state_name == sc_states[n]
            from == transitions_from(chart, state_name)
        IN  ConcatAll([i \in 1..Len(from) |->
                edges_of(chart, state_name, i - 1, from[i],
                         include_guards, include_actions, in_states)])])

\* export_to_dot: the node tree of the root, then the edges
export_to_dot(chart, include_guards, include_actions, in_states) ==
    [nodes |-> visit_state(chart, chart.root, in_states),
     edges |-> get_edges(chart, include_guards, include_actions, in_states)]

(***************************************************************************)
(* SpecRender: export_to_dot on every statechart of a bounded family       *)
(*                                                                         *)
(* The family: every tree over States rooted at root, with the children    *)
(* of each state in either order; every composite state Compound (with     *)
(* any child or no child as initial) or Orthogonal; up to MaxTrans         *)
(* transitions between any two states; decorated (every transition has an  *)
(* event, a guard and an action, every state entry and exit code) or bare. *)
(***************************************************************************)
NonRoot == States \ {"root"}

Injective(q) == \A i, j \in 1..Len(q) : q[i] = q[j] => i = j

ChildLists ==
    {q \in {<< >>} \cup SeqsUpTo(NonRoot, Cardinality(NonRoot)) : Injective(q)}

RECURSIVE Reach(_, _)
Reach(ch, s) ==
    LET kids == SeqToSet(ch[s]) IN kids \cup UNION {Reach(ch, k) : k \in kids}

\* each state but the root is the child of exactly one state, and the
\* root reaches them all
IsTree(ch) ==
    /\ \A s \in NonRoot : Cardinality({p \in States : s \in SeqToSet(ch[p])}) = 1
    /\ \A s \in States : s \notin SeqToSet(ch[s])
    /\ \A a, b \in NonRoot : ~(a # b /\ a \in SeqToSet(ch[b]) /\ b \in SeqToSet(ch[a]))
    /\ Reach(ch, "root") = NonRoot

Trees == {ch \in [States -> ChildLists] : IsTree(ch)}

KindsOf(ch) ==
    {k \in [States -> {"leaf", "compound", "orthogonal"}] :
        \A s \in States : (k[s] = "leaf") <=> (ch[s] = << >>)}

InitialsOf(ch, k) ==
    {i \in [States -> States \cup {None}] :
        \A s \in States :
            IF k[s] = "compound" THEN i[s] \in SeqToSet(ch[s]) \cup {None}
            ELSE i[s] = None}

Transition(src, tgt, decorated) ==
    [source |-> src, target |-> tgt,
     event |-> IF decorated THEN "go" ELSE None,
     guard |-> IF decorated THEN "x>0" ELSE None,
     action |-> IF decorated THEN "y=1" ELSE None]

TransitionLists(decorated) ==
    LET T == {Transition(a, b, decorated) : a \in States, b \in States} IN
    {<< >>} \cup SeqsUpTo(T, MaxTrans)

MakeChart(ch, k, i, tr, d) ==
    [root |-> "root", kind |-> k, children |-> ch, initial |-> i,
     transitions |-> tr,
     on_entry |-> [s \in States |-> IF d THEN "entry" ELSE None],
     on_exit |-> [s \in States |-> IF d THEN "exit" ELSE None]]

Skeletons ==
    UNION {UNION {{<<ch, k, i>> : i \in InitialsOf(ch, k)}
        : k \in KindsOf(ch)} : ch \in Trees}

\* the options and the highlighted configuration of one export
RenderProfiles ==
    {[include_guards |-> TRUE, include_actions |-> TRUE, in_states |-> {}],
     [include_guards |-> FALSE, include_actions |-> TRUE, in_states |-> {"root", "A"}],
     [include_guards |-> TRUE, include_actions |-> FALSE, in_states |-> {"A", "B"}],
     [include_guards |-> FALSE, include_actions |-> FALSE, in_states |-> {}]}

NoOpts == [rendered |-> FALSE, include_guards |-> TRUE, include_actions |-> TRUE,
           in_states |-> {}]
NoDot == [nodes |-> << >>, edges |-> << >>]
NoChart == [root |-> "root", kind |-> [s \in States |-> "leaf"],
            children |-> [s \in States |-> << >>],
            initial |-> [s \in States |-> None], transitions |-> << >>,
            on_entry |-> [s \in States |-> None],
            on_exit |-> [s \in States |-> None]]

RenderInit ==
    /\ \E sk \in Skeletons, d \in BOOLEAN :
         \E tr \in TransitionLists(d) : sc = MakeChart(sk[1], sk[2], sk[3], tr, d)
    /\ opts = NoOpts
    /\ dot = NoDot

\* main's batch export, once per run:
\* export_to_dot(sc, include_guards, include_actions, configuration)
ExportToDot ==
    \E o \in RenderProfiles :
        /\ ~opts.rendered
        /\ opts' = [rendered |-> TRUE, include_guards |-> o.include_guards,
                    include_actions |-> o.include_actions, in_states |-> o.in_states]
        /\ dot' = export_to_dot(sc, o.include_guards, o.include_actions, o.in_states)
        /\ UNCHANGED <<sc, evalVars, sessVars, bindVars>>

(***************************************************************************)
(* Reading the DOT text back                                               *)
(***************************************************************************)
\* the clusters open after the first i lines, outermost first
RECURSIVE OpenAt(_, _)
OpenAt(nodes, i) ==
    IF i = 0 THEN << >>
    ELSE LET st == OpenAt(nodes, i - 1) IN
         IF nodes[i].t = "subgraph" THEN Append(st, nodes[i].name.s)
         ELSE IF nodes[i].t = "close" THEN SubSeq(st, 1, Len(st) - 1)
         ELSE st

\* the cluster line i lies directly in ("" at the top level)
Encloser(nodes, i) ==
    LET st == OpenAt(nodes, i - 1) IN IF st = << >> THEN "" ELSE st[Len(st)]

\* the lines lying directly in cluster_s, from line i on, in order
RECURSIVE DirectLinesFrom(_, _, _)
DirectLinesFrom(nodes, s, i) ==
    IF i > Len(nodes) THEN << >>
    ELSE (IF Encloser(nodes, i) = s THEN <<nodes[i]>> ELSE << >>)
         \o DirectLinesFrom(nodes, s, i + 1)

IsChildEntry(ln) == ln.t = "subgraph" \/ (ln.t = "node" /\ ln.name.k = "state")
IsInitialMarker(ln) == ln.t = "edge" /\ ln.name.k = "initial"

ChildEntries(nodes, s) == SelectSeq(DirectLinesFrom(nodes, s, 1), IsChildEntry)
InitialMarkers(nodes, s) == SelectSeq(DirectLinesFrom(nodes, s, 1), IsInitialMarker)

\* the lines declaring a node called name, as indices
Declarations(nodes, name) ==
    {i \in 1..Len(nodes) : nodes[i].t = "node" /\ nodes[i].name = name}

\* the tree relation read off the parent links, not off descendants_for
ParentOf(chart, s) ==
    IF \E p \in States : s \in SeqToSet(chart.children[p])
    THEN CHOOSE p \in States : s \in SeqToSet(chart.children[p])
    ELSE ""

RECURSIVE AncestorsOf(_, _)
AncestorsOf(chart, s) ==
    LET p == ParentOf(chart, s) IN
    IF p = "" THEN {} ELSE {p} \cup AncestorsOf(chart, p)

StrictDescendant(chart, t, s) == s \in AncestorsOf(chart, t)

Composite(chart, s) == chart.children[s] # << >>

\* the transitions in the order get_edges meets them, each with its
\* ordinal among the transitions of its source
TransitionsInOrder(chart) ==
    ConcatAll([n \in 1..Len(sc_states) |-> transitions_from(chart, sc_states[n])])

Ordinal(chart, k) ==
    LET trs == TransitionsInOrder(chart) IN
    Cardinality({j \in 1..(k - 1) : trs[j].source = trs[k].source})

\* how many edges a transition must give, and where they start
Segments(chart, t) == IF StrictDescendant(chart, t.target, t.source) THEN 2 ELSE 1

RECURSIVE EdgesBefore(_, _)
EdgesBefore(chart, k) ==
    IF k = 1 THEN 0
    ELSE EdgesBefore(chart, k - 1) + Segments(chart, TransitionsInOrder(chart)[k - 1])

TotalEdges(chart) ==
    LET n == Len(TransitionsInOrder(chart)) IN
    IF n = 0 THEN 0
    ELSE EdgesBefore(chart, n) + Segments(chart, TransitionsInOrder(chart)[n])

\* event, then [guard], then / action, each when present and switched on
ComposedLabel(t) ==
    (IF t.event # None THEN <<LabelPart("event", t.event)>> ELSE << >>)
    \o (IF opts.include_guards /\ t.guard # None
        THEN <<LabelPart("guard", t.guard)>> ELSE << >>)
    \o (IF opts.include_actions /\ t.action # None
        THEN <<LabelPart("action", t.action)>> ELSE << >>)

AnchorOf(chart, s) ==
    IF Composite(chart, s) THEN Nm("invisible", s, 0) ELSE StateName(s)

TransitionIndices == 1..Len(TransitionsInOrder(sc))

(***************************************************************************)
(* Claims about the renderer (SpecRender)                                  *)
(***************************************************************************)

\* C6: for every composite state the emitted cluster holds exactly one
\* rendered entry per declared child, in declared order; exactly one
\* initial-marker edge, to the declared initial child, when the state is
\* Compound and has an initial child; and no initial-marker edge when the
\* state is Orthogonal or a Compound state without an initial child.
C6_ClusterStructure ==
    opts.rendered =>
        \A s \in States :
            Composite(sc, s) =>
                LET entries == ChildEntries(dot.nodes, s)
                    markers == InitialMarkers(dot.nodes, s)
                IN  /\ [i \in 1..Len(entries) |-> entries[i].name.s] = sc.children[s]
                    /\ IF sc.kind[s] = "compound" /\ sc.initial[s] # None
                       THEN /\ Len(markers) = 1
                            /\ markers[1].to = StateName(sc.initial[s])
                       ELSE markers = << >>

\* C7: a transition whose target is a strict descendant of its source gives
\* exactly two edges sharing one waypoint (source anchor -> waypoint,
\* undirected, empty label; waypoint -> target anchor, directed, the full
\* composed label); every other transition gives exactly one directed edge
\* between the two anchors carrying the label.
C7_EdgeSegments ==
    opts.rendered =>
        /\ Len(dot.edges) = TotalEdges(sc)
        /\ \A k \in TransitionIndices :
            LET t == TransitionsInOrder(sc)[k]
                at == EdgesBefore(sc, k) + 1
            IN  IF StrictDescendant(sc, t.target, t.source)
                THEN LET e1 == dot.edges[at]
                         e2 == dot.edges[at + 1]
                     IN  /\ e1.source = AnchorOf(sc, t.source)
                         /\ e1.target.k = "point"
                         /\ e1.target = e2.source
                         /\ e1.dir = "none"
                         /\ e1.label = << >>
                         /\ e2.target = AnchorOf(sc, t.target)
                         /\ e2.dir = ""
                         /\ e2.label = ComposedLabel(t)
                ELSE LET e == dot.edges[at]
                     IN  /\ e.source = AnchorOf(sc, t.source)
                         /\ e.target = AnchorOf(sc, t.target)
                         /\ e.dir = ""
                         /\ e.label = ComposedLabel(t)

\* a rendered statechart with a labelled transition into a strict
\* descendant and a self-transition
C7_Witness ==
    /\ opts.rendered
    /\ Len(dot.edges) = 3
    /\ \E k \in TransitionIndices :
        LET t == TransitionsInOrder(sc)[k] IN
        StrictDescendant(sc, t.target, t.source) /\ Len(ComposedLabel(t)) = 3
    /\ \E k \in TransitionIndices :
        LET t == TransitionsInOrder(sc)[k] IN t.source = t.target

\* C8: on the side of a composite source (target) the edge carries
\* ltail (lhead) = cluster_<state> and ends at invisible_<state>, which is
\* declared inside that cluster; on the side of a leaf no clip attribute
\* is emitted.
C8_BoundaryClip ==
    opts.rendered =>
        /\ Len(dot.edges) = TotalEdges(sc)
        /\ \A k \in TransitionIndices :
            LET t == TransitionsInOrder(sc)[k]
                at == EdgesBefore(sc, k) + 1
                first == dot.edges[at]
                last == dot.edges[at + Segments(sc, t) - 1]
                Anchored(s) ==
                    \E i \in Declarations(dot.nodes, Nm("invisible", s, 0)) :
                        Encloser(dot.nodes, i) = s
            IN  /\ IF Composite(sc, t.source)
                   THEN /\ first.ltail = Nm("cluster", t.source, 0)
                        /\ first.source = Nm("invisible", t.source, 0)
                        /\ Anchored(t.source)
                   ELSE first.ltail = NoName /\ first.source = StateName(t.source)
                /\ IF Composite(sc, t.target)
                   THEN /\ last.lhead = Nm("cluster", t.target, 0)
                        /\ last.target = Nm("invisible", t.target, 0)
                        /\ Anchored(t.target)
                   ELSE last.lhead = NoName /\ last.target = StateName(t.target)

\* a rendered statechart with a transition from a composite state to
\* another composite state and a transition between a leaf and a composite
C8_Witness ==
    /\ opts.rendered
    /\ \E k \in TransitionIndices :
        LET t == TransitionsInOrder(sc)[k] IN
        /\ Composite(sc, t.source) /\ Composite(sc, t.target) /\ t.source # t.target
        /\ dot.edges[EdgesBefore(sc, k) + 1].ltail = Nm("cluster", t.source, 0)
    /\ \E k \in TransitionIndices :
        LET t == TransitionsInOrder(sc)[k] IN
        /\ ~Composite(sc, t.source) /\ Composite(sc, t.target)
        /\ dot.edges[EdgesBefore(sc, k) + 1].lhead = Nm("cluster", t.target, 0)

\* C10: for every transition whose target is a strict descendant of its
\* source S (the root included) the node tree declares exactly one
\* waypoint node, inside cluster_S, named point_<S>_<ordinal>, the name
\* the two edge segments of the transition use.
C10_WaypointDeclared ==
    opts.rendered =>
        \A k \in TransitionIndices :
            LET t == TransitionsInOrder(sc)[k]
                at == EdgesBefore(sc, k) + 1
                w == Nm("point", t.source, Ordinal(sc, k))
                decls == Declarations(dot.nodes, w)
            IN  StrictDescendant(sc, t.target, t.source) =>
                    /\ Cardinality(decls) = 1
                    /\ \A i \in decls : Encloser(dot.nodes, i) = t.source
                    /\ dot.edges[at].target = w
                    /\ dot.edges[at + 1].source = w

(***************************************************************************)
(* The interactive session (Spec)                                          *)
(*                                                                         *)
(* daemon is what the YAML file holds, as far as the session can tell:     *)
(* the entry code of the initial state (run by interp.execute()), and the  *)
(* guard and action of the transition that event "go" triggers between     *)
(* the two states s1 and s2. Event "noop" triggers nothing.                *)
(***************************************************************************)
\* most resets and most history entries of one modelled session
MaxResets == 1
MaxHistory == 4

Const1 == [e |-> "const", n |-> ""]
AssignX(expr) == [s |-> "assign", t |-> "x", e |-> expr]
ExprStmt(expr) == [s |-> "expr", t |-> "", e |-> expr]

Daemons ==
    { \* every name the code uses is defined
      [on_entry |-> <<AssignX(Const1)>>,
       guard |-> [e |-> "name", n |-> "x"],
       action |-> <<AssignX([e |-> "binop", n |-> "x"])>>],
      \* an undefined name, used through attribute access and calls only
      [on_entry |-> <<ExprStmt([e |-> "attrcall", n |-> "foo"])>>,
       guard |-> Const1,
       action |-> <<ExprStmt([e |-> "attrcall", n |-> "foo"]), AssignX(Const1)>>],
      \* an undefined name in the guard
      [on_entry |-> << >>,
       guard |-> [e |-> "name", n |-> "foo"],
       action |-> <<AssignX(Const1)>>],
      \* an operator applied to an undefined name in the action
      [on_entry |-> << >>,
       guard |-> Const1,
       action |-> <<AssignX([e |-> "binop", n |-> "foo"])>>] }

Events == {"go", "noop"}

EmptyContext == [n \in CtxNames |-> Unbound]

\* Interpreter(daemon): a new interpreter, nothing executed yet
Interpreter(gen) ==
    [gen |-> gen, ev |-> OriginalEvaluator, ctx |-> EmptyContext,
     conf |-> "s1", ran |-> "none"]

\* interp.execute() right after construction: the initial step runs the
\* entry code through the evaluator's _execute_code
Entered(i, r) ==
    [interp |-> [i EXCEPT !.ctx = r.locals, !.ran = i.ev["_execute_code"]],
     exc |-> r.exc]

initial_execute(i, d) ==
    IF d.on_entry = << >> THEN [interp |-> i, exc |-> ""]
    ELSE Entered(i, execute_code(i.ev, i.ctx, d.on_entry))

\* create_interp: interp = Interpreter(import_from_yaml(...)); interp.execute()
create_interp(old, d) == initial_execute(Interpreter(old.gen + 1), d)

\* interp.queue(Event(event)).execute(): the guard through _evaluate_code,
\* then the action through _execute_code; one micro step either way. by
\* holds the methods of the evaluator ("orig", "new") that ran the code
\* the transition fires: r is what its action did
Fired(i, r) ==
    IF r.exc # ""
    THEN [interp |-> [i EXCEPT !.ctx = r.locals,
                               !.ran = i.ev["_execute_code"]],
          exc |-> r.exc, steps |-> 0,
          by |-> {i.ev["_evaluate_code"], i.ev["_execute_code"]}]
    ELSE [interp |-> [i EXCEPT !.ctx = r.locals,
                               !.ran = i.ev["_execute_code"],
                               !.conf = IF i.conf = "s1" THEN "s2" ELSE "s1"],
          exc |-> "", steps |-> 1,
          by |-> {i.ev["_evaluate_code"], i.ev["_execute_code"]}]

\* the transition is selected or not: g is what its guard evaluated to
Selected(i, d, g) ==
    IF g.exc # ""
    THEN [interp |-> i, exc |-> g.exc, steps |-> 0, by |-> {i.ev["_evaluate_code"]}]
    ELSE IF ~g.val
    THEN [interp |-> i, exc |-> "", steps |-> 1, by |-> {i.ev["_evaluate_code"]}]
    ELSE Fired(i, execute_code(i.ev, i.ctx, d.action))

queue_execute(i, d, event) ==
    IF event # "go" THEN [interp |-> i, exc |-> "", steps |-> 1, by |-> {}]
    ELSE Selected(i, d, evaluate_code(i.ev, i.ctx, d.guard))

(***************************************************************************)
(* create_image                                                            *)
(*                                                                         *)
(* The file at imagefile_path holds nothing yet ("empty"), the SVG of a    *)
(* configuration, or part of an SVG. raster is what the external tool      *)
(* does: it writes its output ("ok"), cannot be started ("missing_tool"),  *)
(* fails before opening its output ("failed_early") or fails while         *)
(* writing it ("failed_partial").                                          *)
(***************************************************************************)
RasterOutcomes == {"ok", "missing_tool", "failed_early", "failed_partial"}
RasterFailures == RasterOutcomes \ {"ok"}

EmptyFile == [kind |-> "empty", of |-> ""]
PartialFile == [kind |-> "partial", of |-> ""]
SvgFile(conf) == [kind |-> "svg", of |-> conf]

create_image(img, file_type, in_states, raster) ==
    IF file_type = "dot" THEN
        \* os.system("dot -Tsvg {inpath} -o {outpath}") writes imagepath itself
        [image |-> CASE raster = "ok" -> SvgFile(in_states)
                     [] raster = "failed_partial" -> PartialFile
                     [] OTHER -> img,
         exc |-> ""]
    ELSE
        \* plantuml writes graph.svg in a temporary directory; then
        \* open(imagefile_path, "wb") truncates the image before
        \* open(graph.svg, "rb") is tried
        CASE raster = "ok" -> [image |-> SvgFile(in_states), exc |-> ""]
          [] raster = "failed_partial" -> [image |-> PartialFile, exc |-> ""]
          [] OTHER -> [image |-> EmptyFile, exc |-> "IOError"]

(***************************************************************************)
(* The request handler display_interactive_statechart                      *)
(*                                                                         *)
(* A request carries reset, the form (fromform with its three checkboxes), *)
(* an event name ("" for none); raster is what the external tool will do.  *)
(* The handler's statements run in order; an exception ends the request    *)
(* there (Flask answers 500) and the server goes on serving.               *)
(***************************************************************************)
DefaultFontSize == 14

NoForm == [fromform |-> FALSE, include_guards |-> FALSE,
           include_actions |-> FALSE, disable_keyerror |-> FALSE]

\* no form, the form with every box checked, the form with none checked
Forms ==
    {NoForm}
    \cup {[fromform |-> TRUE, include_guards |-> b, include_actions |-> b,
           disable_keyerror |-> b] : b \in BOOLEAN}

\* a history entry: the "Triggered Event" marker or a micro step, and the
\* interpreter (its number) that was live when it was recorded
HistoryEntry(kind, event, gen) == [kind |-> kind, gen |-> gen]

\* the handler's state as its statements pass it on: exc is the exception
\* that ended the request, rendered whether create_image was reached
Pass(i, gc, img, exc) ==
    [interp |-> i, gc |-> gc, image |-> img, exc |-> exc, runs |-> {}]

\* statechart code was run by the evaluator methods in by while
\* global_config["disable_keyerror"] was setting
Runs(by, setting) == {[by |-> b, setting |-> setting] : b \in by \ {"none"}}

\* if request.args.get("reset"): create_interp()
\* the handler goes on with the interpreter and the exception of r
After(p, r) ==
    [p EXCEPT !.interp = r.interp, !.exc = r.exc,
              !.runs = @ \cup Runs({r.interp.ran}, p.gc.disable_keyerror)]

HandleReset(p, d, reset) ==
    IF p.exc # "" \/ ~reset THEN p
    ELSE After(p, create_interp(p.interp, d))

\* if request.args.get("fromform"): the four options from the form
HandleForm(p, form) ==
    IF p.exc # "" \/ ~form.fromform THEN p
    ELSE [p EXCEPT !.gc.edge_fontsize = DefaultFontSize,
                   !.gc.include_guards = form.include_guards,
                   !.gc.include_actions = form.include_actions,
                   !.gc.disable_keyerror = form.disable_keyerror]

\* if global_config["disable_keyerror"]: disable_keyerror_in_actions()
\* else: enable_keyerror_in_actions()
AfterEnable(p, r) == [p EXCEPT !.interp.ev = r.ev, !.exc = r.exc]

HandleKeyerror(p) ==
    IF p.exc # "" THEN p
    ELSE IF p.gc.disable_keyerror
    THEN [p EXCEPT !.interp.ev = disable_keyerror_in_actions(p.interp.ev)]
    ELSE AfterEnable(p, enable_keyerror_in_actions(p.interp.ev))

\* if event: the marker, then the steps of interp.queue(...).execute()
\* global_config["history"].append(...) for each step r made
Recorded(p, event, marked, r) ==
    [p EXCEPT !.interp = r.interp,
              !.exc = r.exc,
              !.runs = @ \cup Runs(r.by, p.gc.disable_keyerror),
              !.gc.history =
                  IF r.steps = 0 THEN marked
                  ELSE Append(marked, HistoryEntry("step", event, p.interp.gen))]

HandleEvent(p, d, event) ==
    IF p.exc # "" \/ event = "" THEN p
    ELSE Recorded(p, event,
                  Append(p.gc.history, HistoryEntry("event", event, p.interp.gen)),
                  queue_execute(p.interp, d, event))

\* create_image(interp.statechart, interp.configuration, global_config, ...)
Imaged(p, r) == [p EXCEPT !.image = r.image, !.exc = r.exc]

HandleImage(p, raster) ==
    IF p.exc # "" THEN p
    ELSE Imaged(p, create_image(p.image, p.gc.file_type, p.interp.conf, raster))

display_interactive_statechart(p, d, reset, form, event, raster) ==
    HandleImage(
        HandleEvent(
            HandleKeyerror(
                HandleForm(
                    HandleReset(p, d, reset),
                    form)),
            d, event),
        raster)

NoInterp == Interpreter(0)

\* how the last request ended: whether it carried reset, the exception that
\* ended it, what the external tool did if create_image was reached, the
\* image file as the request found it, and which evaluator methods ran
\* statechart code under which disable_keyerror setting
NoResponse == [phase |-> "start", reset |-> FALSE, exc |-> "", raster |-> "",
               image_before |-> EmptyFile, runs |-> {}]

SessInit ==
    /\ daemon \in Daemons
    /\ interp = NoInterp
    /\ global_config \in
        {[file_type |-> ft, edge_fontsize |-> DefaultFontSize,
          include_guards |-> TRUE, include_actions |-> TRUE,
          disable_keyerror |-> TRUE, history |-> << >>] : ft \in {"dot", "puml"}}
    /\ image = EmptyFile
    /\ response = NoResponse

\* run_interactive: create_interp(), then the server starts; an exception
\* of create_interp ends the program
RunInteractive ==
    /\ response.phase = "start"
    /\ LET r == create_interp(interp, daemon) IN
        /\ interp' = r.interp
        /\ response' = [NoResponse EXCEPT
                            !.phase = IF r.exc = "" THEN "serving" ELSE "crashed",
                            !.exc = r.exc,
                            !.runs = Runs({r.interp.ran},
                                          global_config.disable_keyerror)]
    /\ UNCHANGED <<global_config, image, daemon, evalVars, rendVars, bindVars>>

\* one GET / request, served to its end (threaded=False)
Request ==
    \E reset \in BOOLEAN, form \in Forms, event \in Events \cup {""},
       raster \in RasterOutcomes :
        /\ response.phase = "serving"
        /\ reset => interp.gen <= MaxResets
        /\ event # "" => Len(global_config.history) + 2 <= MaxHistory
        /\ LET p == display_interactive_statechart(
                        Pass(interp, global_config, image, ""),
                        daemon, reset, form, event, raster)
           IN  /\ interp' = p.interp
               /\ global_config' = p.gc
               /\ image' = p.image
               /\ response' = [phase |-> "serving", reset |-> reset, exc |-> p.exc,
                               raster |-> IF p.exc \in {"", "IOError"} THEN raster ELSE "",
                               image_before |-> image,
                               runs |-> p.runs]
        /\ UNCHANGED <<daemon, evalVars, rendVars, bindVars>>

(***************************************************************************)
(* Properties of the interactive session                                   *)
(***************************************************************************)
\* C2: after a reset request the session holds a freshly constructed
\* interpreter and the history holds no entry recorded before the reset:
\* every entry of global_config["history"] was recorded under the
\* interpreter the reset constructed.
C2_ResetDiscardsHistory ==
    (response.phase = "serving" /\ response.reset)
    => /\ interp.gen > 1
       /\ \A k \in 1..Len(global_config.history) :
              global_config.history[k].gen = interp.gen

\* C4: once the image file holds a rendered image, a request whose external
\* rasterization fails (the tool is missing, exits early, or leaves its
\* output unfinished), on the dot or the puml path, leaves the image file
\* with the content it had, and the request ends without an exception.
C4_StaleImageRetained ==
    (/\ response.phase = "serving"
     /\ response.raster \in RasterFailures
     /\ response.image_before.kind = "svg")
    => (image = response.image_before /\ response.exc = "")

\* C11: whenever the current interpreter runs statechart code (the initial
\* interp.execute() of create_interp at startup and on every reset, and each
\* event executed by the request handler) the evaluator method that runs it
\* is the permissive one exactly when global_config["disable_keyerror"] is
\* set; with the default setting no code is ever run by the original,
\* strict evaluator.
C11_EvaluatorMatchesSetting ==
    \A run \in response.runs : (run.by = "new") <=> run.setting

(***************************************************************************)
(* server_to_bind (SpecBind)                                               *)
(*                                                                         *)
(* The interpreter the callback is bound to runs in the caller's thread    *)
(* and reports each step as meta-events: "step started", one "state        *)
(* exited" per state left, one "state entered" per state entered. The      *)
(* Flask server runs in a second thread started by server_to_bind; its     *)
(* index() reads the same configuration list, with no lock between them.   *)
(***************************************************************************)
\* latest time a step starts at
MaxClock == 2

StateLists == {q \in {<< >>} \cup SeqsUpTo(States, Cardinality(States)) : Injective(q)}

IdleStepper == [pc |-> "idle", exits |-> << >>, enters |-> << >>, applied |-> 0]

NoServed == [rendered |-> FALSE, states |-> << >>, in_step |-> FALSE,
             image |-> EmptyFile]

\* list.remove(x)
Remove(q, x) == SelectSeq(q, LAMBDA y : y # x)

\* callback(metaevent) for each of the three meta-events it handles
callback_state_entered(conf, state) == Append(conf, state)
callback_state_exited(conf, state) == Remove(conf, state)
callback_step_started(time) == time

BindInit ==
    /\ configuration = << >>
    /\ clock_time = 0
    /\ stepper = IdleStepper
    /\ served = NoServed

\* the interpreter starts a step: it will leave some active states and
\* enter some states that are then inactive
StepStarted ==
    \E exits \in StateLists, enters \in StateLists :
        /\ stepper.pc = "idle"
        /\ clock_time < MaxClock
        /\ SeqToSet(exits) \subseteq SeqToSet(configuration)
        /\ SeqToSet(enters) \cap (SeqToSet(configuration) \ SeqToSet(exits)) = {}
        /\ stepper' = [pc |-> "running", exits |-> exits, enters |-> enters,
                       applied |-> 0]
        /\ clock_time' = callback_step_started(clock_time + 1)
        /\ UNCHANGED <<configuration, served, evalVars, sessVars, rendVars>>

StateExited ==
    /\ stepper.pc = "running"
    /\ stepper.exits # << >>
    /\ configuration' = callback_state_exited(configuration, Head(stepper.exits))
    /\ stepper' = [stepper EXCEPT !.exits = Tail(stepper.exits),
                                  !.applied = stepper.applied + 1]
    /\ UNCHANGED <<clock_time, served, evalVars, sessVars, rendVars>>

StateEntered ==
    /\ stepper.pc = "running"
    /\ stepper.exits = << >>
    /\ stepper.enters # << >>
    /\ configuration' = callback_state_entered(configuration, Head(stepper.enters))
    /\ stepper' = [stepper EXCEPT !.enters = Tail(stepper.enters),
                                  !.applied = stepper.applied + 1]
    /\ UNCHANGED <<clock_time, served, evalVars, sessVars, rendVars>>

StepEnded ==
    /\ stepper.pc = "running"
    /\ stepper.exits = << >>
    /\ stepper.enters = << >>
    /\ stepper' = IdleStepper
    /\ UNCHANGED <<configuration, clock_time, served, evalVars, sessVars, rendVars>>

\* index() in the server thread: create_image(statechart, configuration,
\* global_config, imagefile_path), then the page
Index ==
    \E raster \in RasterOutcomes :
        LET r == create_image(served.image, "dot", configuration, raster) IN
        /\ served' = [rendered |-> TRUE, states |-> configuration,
                      in_step |-> /\ stepper.pc = "running"
                                  /\ stepper.applied > 0
                                  /\ Len(stepper.exits) + Len(stepper.enters) > 0,
                      image |-> r.image]
        /\ UNCHANGED <<configuration, clock_time, stepper, evalVars, sessVars, rendVars>>

\* C5: the renderer only reads a configuration the interpreter holds after
\* it has quiesced: no render observes the configuration between the
\* "state exited" and "state entered" updates of a step still in progress.
C5_QuiescentRender == served.rendered => ~served.in_step

(***************************************************************************)
(* The four specifications                                                 *)
(***************************************************************************)
NoDaemon == [on_entry |-> << >>, guard |-> Const1, action |-> << >>]

EvalIdle == ev = OriginalEvaluator /\ ctx = EmptyContext /\ call = NoCall

SessIdle ==
    /\ interp = NoInterp
    /\ global_config = [file_type |-> "dot", edge_fontsize |-> DefaultFontSize,
                        include_guards |-> TRUE, include_actions |-> TRUE,
                        disable_keyerror |-> TRUE, history |-> << >>]
    /\ image = EmptyFile
    /\ response = NoResponse
    /\ daemon = NoDaemon

RendIdle == sc = NoChart /\ opts = NoOpts /\ dot = NoDot

Init == SessInit /\ EvalIdle /\ RendIdle /\ BindInit
Next == RunInteractive \/ Request
Spec == Init /\ [][Next]_vars

InitEval == EvalInit /\ SessIdle /\ RendIdle /\ BindInit
NextEval == CallDisable \/ CallEnable \/ CallExecute \/ CallEvaluate
SpecEval == InitEval /\ [][NextEval]_vars

InitRender == RenderInit /\ EvalIdle /\ SessIdle /\ BindInit
NextRender == ExportToDot
SpecRender == InitRender /\ [][NextRender]_vars

InitBind == BindInit /\ EvalIdle /\ SessIdle /\ RendIdle
NextBind == StepStarted \/ StateExited \/ StateEntered \/ StepEnded \/ Index
SpecBind == InitBind /\ [][NextBind]_vars
=============================================================================
